---- MODULE Spec2Model ----
(***************************************************************************)
(* Model of src/src/app.py: a Flask application with five routes, a        *)
(* before_request hook that bumps a module-level integer, a labelled       *)
(* prometheus Counter bumped by four of the five view functions, and two   *)
(* error handlers.  Requests are served by the threads of the development  *)
(* server (app.run, threaded), one request per thread at a time.           *)
(***************************************************************************)
EXTENDS Integers, FiniteSets, Sequences, TLC

\* ---------------------------------------------------------------- bounds
MaxRequests == 3       \* requests the clients issue in one behaviour
MaxFaultRequests == 2  \* the same, when view functions may raise
MaxClockSamples == 2   \* the clock is sampled at MaxClockSamples + 1 points
ClockStride == 2337    \* distance of two clock samples, in clock ticks
ClockSkew == 1000      \* the first clock sample lies ClockSkew ticks before 0
TicksPerMs == 2        \* clock ticks per millisecond (time.time() is finer than 1 ms)

\* ------------------------------------------------------ program constants
DefaultPort == 8000
RandomModulus == 1000
MsPerSecond == 1000

\* the server threads that handle requests concurrently
Workers == {"t1", "t2"}

\* app.route registrations
Routes == {"/", "/health", "/metrics", "/api/info", "/api/test"}
\* paths the clients request: the five routes and one unmatched path
Paths == Routes \cup {"/nonexistent"}

\* values time.time() can return, in ticks (one of them before the epoch)
ClockSamples == {k * ClockStride - ClockSkew : k \in 0..MaxClockSamples}

\* values time.time() can return when the module is imported
StartSamples == {-ClockSkew, ClockStride - ClockSkew}

EnvValues == {"development", "production"}

JSON == "application/json"
HTML == "text/html"
CONTENT_TYPE_LATEST == "text/plain; version=0.0.4; charset=utf-8"

VARIABLES
    request_count,     \* module global, app.py:30
    app_start_time,    \* module global, app.py:29 (ticks)
    REQUEST_COUNT,     \* children of the labelled Counter: endpoint label -> value
    REQUEST_DURATION,  \* the Histogram (never observed by the program)
    config,            \* the environment variables the program reads
    debug,             \* the debug flag handed to app.run
    error_log,         \* number of records written by logger.error
    issued,            \* client side: number of requests sent so far
    pc,                \* per thread: position in the request's handling
    path,              \* per thread: path of the request being handled
    tmp,               \* per thread: value of request_count loaded by +=
    fault,             \* per thread: the view function of this request raises
    resp               \* per thread: the response produced for the request

vars == <<request_count, app_start_time, REQUEST_COUNT, REQUEST_DURATION, config,
          debug, error_log, issued, pc, path, tmp, fault, resp>>

shared == <<request_count, REQUEST_COUNT, REQUEST_DURATION, error_log>>
fixed == <<app_start_time, config, debug>>

\* ------------------------------------------------------------- helpers
\* Python int(): truncation toward zero of n / d
PyInt(n, d) == IF n >= 0 THEN n \div d ELSE -((-n) \div d)

\* Python %: the result has the sign of the (positive) divisor
PyMod(a, m) == a % m

NoResp ==
    [status |-> 0, ctype |-> "", keys |-> {}, random_number |-> -1,
     families |-> {}, samples |-> {}, request_count |-> -1]

Response(status, ctype, keys) ==
    [NoResp EXCEPT !.status = status, !.ctype = ctype, !.keys = keys]

\* flask.jsonify of a dict with the given keys
jsonify(keys) == Response(200, JSON, keys)

\* Counter.labels(method='GET', endpoint=e).inc(): the child is created on first
\* use; the increment itself is guarded by the library's mutex.
LabelsInc(reg, e) ==
    [l \in (DOMAIN reg) \cup {e} |->
        IF l = e THEN (IF e \in DOMAIN reg THEN reg[e] + 1 ELSE 1) ELSE reg[l]]

\* Variant of random_number that drops the modulo.
random_number_raw(t) == PyInt(t * MsPerSecond, TicksPerMs * MsPerSecond)

\* int(time.time() * 1000) % 1000 for a clock reading of t ticks (app.py:148)
random_number(t) ==
    PyMod(PyInt(t * MsPerSecond, TicksPerMs * MsPerSecond), RandomModulus)

\* Variant of generate_latest for a registry the Counter was never registered in.
generate_latest_unregistered(reg, hist) ==
    [NoResp EXCEPT
        !.status = 200,
        !.ctype = CONTENT_TYPE_LATEST,
        !.families = {"app_request_duration_seconds"},
        !.samples =
            {[name |-> "app_request_duration_seconds_count", endpoint |-> "",
              value |-> hist.count],
             [name |-> "app_request_duration_seconds_sum", endpoint |-> "",
              value |-> hist.sum]}]

\* prometheus_client.generate_latest(): every registered metric contributes its
\* HELP/TYPE header (families); a labelled Counter contributes one sample per
\* child that labels() has created, an unlabelled Histogram always its samples.
generate_latest(reg, hist) ==
    [NoResp EXCEPT
        !.status = 200,
        !.ctype = CONTENT_TYPE_LATEST,
        !.families = {"app_requests_total", "app_request_duration_seconds"},
        !.samples =
            {[name |-> "app_requests_total", endpoint |-> e, value |-> reg[e]] :
                e \in DOMAIN reg}
            \cup {[name |-> "app_request_duration_seconds_count", endpoint |-> "",
                   value |-> hist.count],
                  [name |-> "app_request_duration_seconds_sum", endpoint |-> "",
                   value |-> hist.sum]}]

\* ------------------------------------------------------------------ Init
\* Module import (app.py:22-30) and the __main__ block (app.py:162-170).
Init ==
    /\ request_count = 0
    /\ app_start_time \in StartSamples
    /\ REQUEST_COUNT = << >>
    /\ REQUEST_DURATION = [count |-> 0, sum |-> 0]
    /\ config \in [APP_ENV : EnvValues, BRANCH_NAME : {"main"}, PORT : {DefaultPort}]
    /\ debug = (config.APP_ENV = "development")
    /\ error_log = 0
    /\ issued = 0
    /\ pc = [w \in Workers |-> "idle"]
    /\ path = [w \in Workers |-> "/"]
    /\ tmp = [w \in Workers |-> 0]
    /\ fault = [w \in Workers |-> FALSE]
    /\ resp = [w \in Workers |-> NoResp]

\* --------------------------------------------------------------- actions
\* A server thread picks up a request for path p.
Accept(w, p, f, limit) ==
    /\ pc[w] = "idle"
    /\ issued < limit
    /\ issued' = issued + 1
    /\ pc' = [pc EXCEPT ![w] = "before_request"]
    /\ path' = [path EXCEPT ![w] = p]
    /\ fault' = [fault EXCEPT ![w] = f]
    /\ UNCHANGED <<shared, fixed, tmp, resp>>

AcceptRequest(w, p) == Accept(w, p, FALSE, MaxRequests)

\* As AcceptRequest, for a request whose view function may raise.
AcceptFaulty(w, p) ==
    \E f \in BOOLEAN : (f => p \in Routes) /\ Accept(w, p, f, MaxFaultRequests)

\* before_request, first half of `request_count += 1`: load the global.
before_request_load(w) ==
    /\ pc[w] = "before_request"
    /\ tmp' = [tmp EXCEPT ![w] = request_count]
    /\ pc' = [pc EXCEPT ![w] = "store"]
    /\ UNCHANGED <<shared, fixed, issued, path, fault, resp>>

\* before_request, second half: store the loaded value plus one.  The request
\* is then routed: to its view function, or to the 404 handler.
before_request_store(w) ==
    /\ pc[w] = "store"
    /\ request_count' = tmp[w] + 1
    /\ tmp' = [tmp EXCEPT ![w] = 0]
    /\ pc' = [pc EXCEPT ![w] = IF path[w] \in Routes THEN "view" ELSE "abort404"]
    /\ UNCHANGED <<REQUEST_COUNT, REQUEST_DURATION, error_log, fixed, issued, path,
                   fault, resp>>

\* Variant of ViewInc in which the view function forgets the inc() call.
ViewInc_skipped(w, e) ==
    /\ pc[w] = "view"
    /\ path[w] = e
    /\ pc' = [pc EXCEPT ![w] = "return"]
    /\ UNCHANGED <<shared, fixed, issued, path, tmp, fault, resp>>

\* First statement of home, health, api_info and api_test.
ViewInc(w, e) ==
    /\ pc[w] = "view"
    /\ path[w] = e
    /\ REQUEST_COUNT' = LabelsInc(REQUEST_COUNT, e)
    /\ pc' = [pc EXCEPT ![w] = "return"]
    /\ UNCHANGED <<request_count, REQUEST_DURATION, error_log, fixed, issued, path,
                   tmp, fault, resp>>

\* The return statement of a view function.
ViewReturn(w, e, r) ==
    /\ pc[w] = "return"
    /\ path[w] = e
    /\ ~fault[w]
    /\ resp' = [resp EXCEPT ![w] = r]
    /\ pc' = [pc EXCEPT ![w] = "done"]
    /\ UNCHANGED <<shared, fixed, issued, path, tmp, fault>>

home_page ==
    [Response(200, HTML,
              {"current_time", "uptime", "request_count", "branch_name", "environment"})
        EXCEPT !.request_count = request_count]

\* Variant of home that bumps the child of another endpoint.
home_wrong_label(w) ==
    \/ /\ pc[w] = "view"
       /\ path[w] = "/"
       /\ REQUEST_COUNT' = LabelsInc(REQUEST_COUNT, "/health")
       /\ pc' = [pc EXCEPT ![w] = "return"]
       /\ UNCHANGED <<request_count, REQUEST_DURATION, error_log, fixed, issued, path,
                      tmp, fault, resp>>
    \/ ViewReturn(w, "/", home_page)

home(w) ==
    \/ ViewInc(w, "/")
    \/ ViewReturn(w, "/", home_page)

\* Variant of health that returns json.dumps(...) instead of jsonify(...): Flask
\* sends a plain string as text/html.
health_dumps(w) ==
    \/ ViewInc(w, "/health")
    \/ ViewReturn(w, "/health",
                  Response(200, HTML, {"status", "timestamp", "uptime", "version"}))

health(w) ==
    \/ ViewInc(w, "/health")
    \/ ViewReturn(w, "/health", jsonify({"status", "timestamp", "uptime", "version"}))

metrics(w) ==
    /\ pc[w] = "view"
    /\ path[w] = "/metrics"
    /\ ~fault[w]
    /\ resp' = [resp EXCEPT ![w] = generate_latest(REQUEST_COUNT, REQUEST_DURATION)]
    /\ pc' = [pc EXCEPT ![w] = "done"]
    /\ UNCHANGED <<shared, fixed, issued, path, tmp, fault>>

api_info(w) ==
    \/ ViewInc(w, "/api/info")
    \/ ViewReturn(w, "/api/info",
                  jsonify({"app_name", "version", "branch", "environment", "container_id",
                           "python_version", "start_time", "current_time"}))

api_test(w) ==
    \/ ViewInc(w, "/api/test")
    \/ \E t \in ClockSamples :
          ViewReturn(w, "/api/test",
                     [jsonify({"test", "message", "timestamp", "random_number"})
                        EXCEPT !.random_number = random_number(t)])

\* Variant of not_found that counts the miss under the requested path.
not_found_counted(w) ==
    /\ pc[w] = "abort404"
    /\ REQUEST_COUNT' = LabelsInc(REQUEST_COUNT, path[w])
    /\ resp' = [resp EXCEPT ![w] = Response(404, JSON, {"error"})]
    /\ pc' = [pc EXCEPT ![w] = "done"]
    /\ UNCHANGED <<request_count, REQUEST_DURATION, error_log, fixed, issued, path,
                   tmp, fault>>

\* Variant of not_found that returns the body without the status.
not_found_no_status(w) ==
    /\ pc[w] = "abort404"
    /\ resp' = [resp EXCEPT ![w] = jsonify({"error"})]
    /\ pc' = [pc EXCEPT ![w] = "done"]
    /\ UNCHANGED <<shared, fixed, issued, path, tmp, fault>>

\* errorhandler(404): the router found no rule for the path.
not_found(w) ==
    /\ pc[w] = "abort404"
    /\ resp' = [resp EXCEPT ![w] = Response(404, JSON, {"error"})]
    /\ pc' = [pc EXCEPT ![w] = "done"]
    /\ UNCHANGED <<shared, fixed, issued, path, tmp, fault>>

\* A view function raises, before or after its first statement.
raise_exception(w) ==
    /\ fault[w]
    /\ pc[w] \in {"view", "return"}
    /\ pc' = [pc EXCEPT ![w] = "exception"]
    /\ UNCHANGED <<shared, fixed, issued, path, tmp, fault, resp>>

\* errorhandler(500): reached when Flask does not propagate the exception,
\* that is when the application does not run in debug mode.
internal_error(w) ==
    /\ pc[w] = "exception"
    /\ ~debug
    /\ error_log' = error_log + 1
    /\ resp' = [resp EXCEPT ![w] = Response(500, JSON, {"error"})]
    /\ pc' = [pc EXCEPT ![w] = "done"]
    /\ UNCHANGED <<request_count, REQUEST_COUNT, REQUEST_DURATION, fixed, issued, path,
                   tmp, fault>>

\* app.run(debug=True): Flask re-raises the exception and the server's debugger
\* answers with its HTML traceback page; internal_error is not called.
debug_propagate(w) ==
    /\ pc[w] = "exception"
    /\ debug
    /\ resp' = [resp EXCEPT ![w] = Response(500, HTML, {"traceback"})]
    /\ pc' = [pc EXCEPT ![w] = "done"]
    /\ UNCHANGED <<shared, fixed, issued, path, tmp, fault>>

\* The response is sent; the thread is free for the next request.
Reply(w) ==
    /\ pc[w] = "done"
    /\ pc' = [pc EXCEPT ![w] = "idle"]
    /\ resp' = [resp EXCEPT ![w] = NoResp]
    /\ path' = [path EXCEPT ![w] = "/"]
    /\ fault' = [fault EXCEPT ![w] = FALSE]
    /\ UNCHANGED <<shared, fixed, issued, tmp>>

Next ==
    \E w \in Workers :
        \/ \E p \in Paths : AcceptRequest(w, p)
        \/ before_request_load(w)
        \/ before_request_store(w)
        \/ home(w)
        \/ health(w)
        \/ metrics(w)
        \/ api_info(w)
        \/ api_test(w)
        \/ not_found(w)
        \/ Reply(w)

Spec == Init /\ [][Next]_vars

\* The same server with view functions that may raise.
NextFault ==
    \E w \in Workers :
        \/ \E p \in Paths : AcceptFaulty(w, p)
        \/ before_request_load(w)
        \/ before_request_store(w)
        \/ home(w)
        \/ health(w)
        \/ metrics(w)
        \/ api_info(w)
        \/ api_test(w)
        \/ not_found(w)
        \/ raise_exception(w)
        \/ internal_error(w)
        \/ debug_propagate(w)
        \/ Reply(w)

SpecFault == Init /\ [][NextFault]_vars

\* ------------------------------------------------------------ properties
LabelledRoutes == {"/", "/health", "/api/info", "/api/test"}

AllIdle == \A w \in Workers : pc[w] = "idle"

\* thread w takes this step
Step(w) == pc'[w] # pc[w]

\* thread w produces its response in this step
Responds(w) == resp[w] = NoResp /\ resp'[w] # NoResp

\* endpoints the app_requests_total samples of a /metrics body are labelled with
RequestsTotalSamples(r) == {s.endpoint : s \in {x \in r.samples : x.name = "app_requests_total"}}

\* thread w handles a request that ends in 404 or 500
ErrorRequest(w) == pc[w] # "idle" /\ (path[w] \notin Routes \/ fault[w])

\* C1: once N concurrent requests to /api/test (and no others) have completed with
\* 200, the global request count is its value before them (0) plus N.
C1_ConcurrentCountExact ==
    /\ \A w \in Workers :
          (pc[w] = "done" /\ path[w] = "/api/test") => resp[w].status = 200
    /\ (/\ AllIdle
        /\ issued >= 1
        /\ "/api/test" \in DOMAIN REQUEST_COUNT
        /\ REQUEST_COUNT["/api/test"] = issued)
       => request_count = issued

\* C10: the global request count never decreases.
C10_CountMonotonic == [][request_count' >= request_count]_vars

\* C3: a request whose view function raised is answered with 500 and a JSON body
\* with an error field, in debug mode as well.
C3_ExceptionIsJson500 ==
    \A w \in Workers :
        (pc[w] = "done" /\ fault[w])
        => (resp[w].status = 500 /\ resp[w].ctype = JSON /\ "error" \in resp[w].keys)

\* C2 as stated: every request, whatever its path, has bumped the global count and
\* the labelled counter of its endpoint by the time its response exists.
C2_EveryPathCounted ==
    \A w \in Workers :
        pc[w] = "done"
        => (/\ request_count >= 1
            /\ path[w] \in DOMAIN REQUEST_COUNT
            /\ REQUEST_COUNT[path[w]] >= 1)

\* C2 amended: every request runs before_request's store of the loaded count plus
\* one before its response is produced; a request to /, /health, /api/info or
\* /api/test also increments the labelled counter of its own endpoint, by one,
\* before its response is produced; a request to /metrics or to an unmatched path
\* changes no labelled counter.
C2_CountedBeforeResponse ==
    /\ [](\A w \in Workers :
            resp[w] # NoResp
            => (/\ request_count >= 1
                /\ path[w] \in LabelledRoutes
                   => (path[w] \in DOMAIN REQUEST_COUNT /\ REQUEST_COUNT[path[w]] >= 1)))
    /\ [][\A w \in Workers :
            /\ (pc[w] = "store" /\ Step(w)) => request_count' = tmp[w] + 1
            /\ Responds(w) => pc[w] \notin {"idle", "before_request", "store"}
            /\ (Responds(w) /\ path[w] \in LabelledRoutes) => pc[w] = "return"
            /\ (pc[w] = "view" /\ pc'[w] = "return")
               => (/\ path[w] \in LabelledRoutes
                   /\ REQUEST_COUNT' = LabelsInc(REQUEST_COUNT, path[w])
                   /\ REQUEST_COUNT'[path[w]] =
                        (IF path[w] \in DOMAIN REQUEST_COUNT
                         THEN REQUEST_COUNT[path[w]] ELSE 0) + 1)
            /\ (pc[w] # "idle" /\ Step(w) /\ path[w] \notin LabelledRoutes)
               => REQUEST_COUNT' = REQUEST_COUNT]_vars

C2_Witness ==
    \E w, v \in Workers :
        /\ pc[w] = "done" /\ path[w] = "/metrics"
        /\ pc[v] = "done" /\ path[v] = "/health"
        /\ DOMAIN REQUEST_COUNT = {"/health"}
        /\ request_count >= 1

\* C4 as stated: a request that ends in 404 or 500 leaves the global request count
\* and every labelled counter as they were.
C4_ErrorLeavesStateUntouched ==
    [][\A w \in Workers :
          (ErrorRequest(w) /\ Step(w))
          => (request_count' = request_count /\ REQUEST_COUNT' = REQUEST_COUNT)]_vars

\* C4 amended: a request that ends in 404 or 500 still runs before_request's store
\* of the loaded count plus one, and that store is its only write of the global
\* count; ending in 404 it changes no labelled counter, ending in 500 none but the
\* counter of its own endpoint (by one, when the exception follows the inc call);
\* it changes neither the start timestamp, the configuration nor the histogram.
C4_ErrorWritesOnlyCounters ==
    [][\A w \in Workers :
          (ErrorRequest(w) /\ Step(w))
          => (/\ app_start_time' = app_start_time
              /\ config' = config
              /\ debug' = debug
              /\ REQUEST_DURATION' = REQUEST_DURATION
              /\ pc[w] = "store" => request_count' = tmp[w] + 1
              /\ pc[w] # "store" => request_count' = request_count
              /\ path[w] \notin Routes => REQUEST_COUNT' = REQUEST_COUNT
              /\ REQUEST_COUNT' # REQUEST_COUNT
                 => (/\ pc[w] = "view"
                     /\ REQUEST_COUNT' = LabelsInc(REQUEST_COUNT, path[w])))]_vars

C4_Witness ==
    \E w, v \in Workers :
        /\ pc[w] = "done" /\ resp[w].status = 404
        /\ pc[v] = "done" /\ resp[v].status = 500
        /\ path[v] \in DOMAIN REQUEST_COUNT
        /\ request_count = 2

\* C5: a request for a path that matches no route is answered with 404 and a JSON
\* body with an error field, whatever requests came before it.
C5_UnmatchedIs404 ==
    \A w \in Workers :
        (pc[w] = "done" /\ path[w] \notin Routes)
        => (resp[w].status = 404 /\ resp[w].ctype = JSON /\ "error" \in resp[w].keys)

C5_Witness ==
    \E w \in Workers :
        /\ pc[w] = "done" /\ path[w] \notin Routes
        /\ resp[w].status = 404
        /\ issued = MaxRequests
        /\ REQUEST_COUNT # << >>

\* C6: a GET of / or /health is answered without error, and its handling changes
\* nothing but the global request count and the labelled counter of its own
\* endpoint: start timestamp, configuration, histogram, error log and the labelled
\* counters of the other endpoints stay as they are.
C6_HomeHealthFrame ==
    /\ [](\A w \in Workers :
            (pc[w] = "done" /\ path[w] \in {"/", "/health"}) => resp[w].status = 200)
    /\ [][\A w \in Workers :
            (pc[w] # "idle" /\ path[w] \in {"/", "/health"} /\ Step(w))
            => (/\ app_start_time' = app_start_time
                /\ config' = config
                /\ debug' = debug
                /\ REQUEST_DURATION' = REQUEST_DURATION
                /\ error_log' = error_log
                /\ DOMAIN REQUEST_COUNT' \subseteq (DOMAIN REQUEST_COUNT) \cup {path[w]}
                /\ \A e \in DOMAIN REQUEST_COUNT :
                      e # path[w] => REQUEST_COUNT'[e] = REQUEST_COUNT[e])]_vars

C6_Witness ==
    \E w \in Workers :
        /\ pc[w] = "done" /\ path[w] = "/health"
        /\ resp[w].status = 200
        /\ "/health" \in DOMAIN REQUEST_COUNT /\ REQUEST_COUNT["/health"] >= 2
        /\ "/" \in DOMAIN REQUEST_COUNT

\* C7 as stated: whatever came before, the body of GET /metrics holds an
\* app_requests_total sample.
C7_MetricsHasCounterSample ==
    \A w \in Workers :
        (pc[w] = "done" /\ path[w] = "/metrics")
        => (resp[w].status = 200 /\ RequestsTotalSamples(resp[w]) # {})

\* C7 amended: GET /metrics is answered with 200 and a body that always holds the
\* HELP/TYPE header of app_requests_total, and one app_requests_total sample for
\* exactly the endpoints whose view function has called inc() so far: none after
\* no requests, after /metrics requests only or after unmatched paths only.
C7_MetricsDeclaresCounter ==
    /\ [](\A w \in Workers :
            (pc[w] = "done" /\ path[w] = "/metrics")
            => (/\ resp[w].status = 200
                /\ "app_requests_total" \in resp[w].families
                /\ RequestsTotalSamples(resp[w]) \subseteq LabelledRoutes))
    /\ [][\A w \in Workers :
            (Responds(w) /\ path[w] = "/metrics")
            => RequestsTotalSamples(resp'[w]) = DOMAIN REQUEST_COUNT]_vars

C7_Witness ==
    \E w \in Workers :
        /\ pc[w] = "done" /\ path[w] = "/metrics"
        /\ resp[w].status = 200
        /\ "app_requests_total" \in resp[w].families
        /\ RequestsTotalSamples(resp[w]) = {}
        /\ issued = MaxRequests

\* the content type section 4.1 documents for each route
DocumentedType(p) ==
    CASE p = "/" -> HTML
      [] p = "/metrics" -> CONTENT_TYPE_LATEST
      [] OTHER -> JSON

\* C8: a GET of each of the five routes is answered with 200 and the documented
\* content type, in every reachable state.
C8_RoutesReturn200 ==
    \A w \in Workers :
        (pc[w] = "done" /\ path[w] \in Routes)
        => (resp[w].status = 200 /\ resp[w].ctype = DocumentedType(path[w]))

C8_Witness ==
    \E w, v \in Workers :
        /\ pc[w] = "done" /\ path[w] = "/" /\ resp[w].ctype = HTML
        /\ pc[v] = "done" /\ path[v] = "/metrics" /\ resp[v].ctype = CONTENT_TYPE_LATEST
        /\ request_count >= 2

\* whole milliseconds a clock reading of t ticks can stand for
Millis(t) ==
    {m \in ((t \div TicksPerMs) - 1)..((t \div TicksPerMs) + 1) :
        /\ m * TicksPerMs - t < TicksPerMs
        /\ t - m * TicksPerMs < TicksPerMs}

\* C9: the random_number of an /api/test response is an integer in 0..999, equal
\* modulo 1000 to the time in milliseconds of some clock reading.
C9_RandomNumberRange ==
    \A w \in Workers :
        (pc[w] = "done" /\ path[w] = "/api/test")
        => (/\ resp[w].random_number \in 0..999
            /\ \E t \in ClockSamples : \E m \in Millis(t) :
                  (m - resp[w].random_number) % RandomModulus = 0)

C9_Witness ==
    \E w \in Workers :
        /\ pc[w] = "done" /\ path[w] = "/api/test"
        /\ \E t \in ClockSamples :
              /\ t > TicksPerMs * RandomModulus
              /\ resp[w].random_number = random_number(t)
              /\ resp[w].random_number # PyInt(t, TicksPerMs)
====
